---- MODULE Spec2Model ----
(***************************************************************************)
(* Model of reduxBestPractices.js.                                         *)
(*                                                                         *)
(* The file is one line comment and ten block comments.  Three things are  *)
(* modelled:                                                               *)
(*  - the evaluation of the file itself, line by line, as the JavaScript   *)
(*    lexer sees it (specification SpecLoad);                              *)
(*  - the addTodo action creator and the test documented for it            *)
(*    (specification SpecCreator);                                         *)
(*  - the store built from rootReducer, addTodo bound to its dispatch, and *)
(*    the getVisibleTodos selector read from its state (specification      *)
(*    Spec).                                                               *)
(* The snippets are modelled as they behave once extracted from the        *)
(* comments.                                                               *)
(***************************************************************************)
EXTENDS Integers, Sequences, FiniteSets

VARIABLES
    actionsScope, \* the identifiers bound where addTodo is defined
    state,      \* the store state
    addCalls,   \* history of addTodo calls: sequence of [arg, ret]
    testResult, \* outcome of test('addTodo action creator')
    result,     \* value returned by the last getVisibleTodos(state) call
    selThrew,   \* the last getVisibleTodos(state) call threw
    cache,      \* reselect's memo of getVisibleTodos: last argument and result
    nSelect,    \* number of getVisibleTodos(state) calls made
    pc,         \* file evaluation: the line the lexer is at
    inComment,  \* file evaluation: inside a block comment
    codeLines,  \* file evaluation: lines that reached the parser as code
    threw       \* file evaluation: an error was raised

vars == <<actionsScope, state, addCalls, testResult, result, selThrew, cache,
          nSelect, pc, inComment, codeLines, threw>>

storeVars == <<state, result, selThrew, cache, nSelect>>
creatorVars == <<addCalls, testResult>>
loadVars == <<pc, inComment, codeLines, threw>>

----------------------------------------------------------------------------
(* Bounds of the model.                                                    *)

MaxTodos == 2
MaxCalls == 3
MaxSelects == 2

Texts == {"Learn Redux", "Write tests"}

TodoTexts == {"Learn Redux"}

(* JavaScript values a todo's completed property is drawn from, written as *)
(* their source text; "undefined" is also what reading a missing property  *)
(* gives.                                                                  *)
CompletedValues == {"true", "false", "undefined", "0"}

----------------------------------------------------------------------------
(* State Structure: the normalized users example.                          *)

UsersExample ==
    [byId |-> [k \in {"1", "2"} |->
                 IF k = "1" THEN [id |-> "1", name |-> "John"]
                            ELSE [id |-> "2", name |-> "Jane"]],
     allIds |-> <<"1", "2">>]

----------------------------------------------------------------------------
(* Actions: the action type constant and the action creator.               *)

ADD_TODO == "ADD_TODO"

(* The example names two files: actionTypes.js, which exports ADD_TODO,    *)
(* and actions.js, which exports addTodo and imports nothing.  The scope   *)
(* addTodo's body is evaluated in binds addTodo alone when the files are   *)
(* kept as named, and ADD_TODO as well when the example is one scope.      *)
ActionsScopes == {{"addTodo"}, {"ADD_TODO", "addTodo"}}

(* (text) => ({type: ADD_TODO, payload: text}), called in a scope: reading *)
(* ADD_TODO where it is not bound throws a ReferenceError.                 *)
addTodo(text, scope) ==
    IF "ADD_TODO" \in scope
    THEN [threw |-> FALSE, value |-> [type |-> ADD_TODO, payload |-> text]]
    ELSE [threw |-> TRUE, value |-> "ReferenceError: ADD_TODO is not defined"]

(* Testing.  The test file imports addTodo and nothing else.               *)
TestImports == {"addTodo"}

(* const expectedAction = {type: ADD_TODO, payload: 'Learn Redux'}: reading *)
(* ADD_TODO, which the test file does not bind, throws a ReferenceError.   *)
expectedAction ==
    IF "ADD_TODO" \in TestImports
    THEN [threw |-> FALSE,
          value |-> [type |-> ADD_TODO, payload |-> "Learn Redux"]]
    ELSE [threw |-> TRUE,
          value |-> "ReferenceError: ADD_TODO is not defined"]

----------------------------------------------------------------------------
(* Reducers.                                                               *)

Todos == [text : TodoTexts, completed : CompletedValues]

TodoLists == UNION {[1..n -> Todos] : n \in 0..MaxTodos}

(* Users slices usersReducer may return: the example, and a table whose    *)
(* allIds repeats an id.                                                   *)
UsersSlices ==
    {UsersExample,
     [byId |-> UsersExample.byId, allIds |-> <<"1", "2", "2">>]}

(* combineReducers({todos: todosReducer, users: usersReducer}): the next   *)
(* state has the keys todos and users, each the result of its reducer.     *)
(* The two reducers are imported from files the repository does not hold,  *)
(* so each may return any slice: rootReducer is the set of the states a    *)
(* dispatch may produce.                                                   *)
rootReducer(s, action) == [todos : TodoLists, users : UsersSlices]

----------------------------------------------------------------------------
(* Selectors.                                                              *)

(* state => state.todos; a state without the key gives undefined.          *)
getTodos(s) ==
    IF "todos" \in DOMAIN s
    THEN [defined |-> TRUE, value |-> s.todos]
    ELSE [defined |-> FALSE, value |-> <<>>]

(* JavaScript's ToBoolean on a value written as its source text: false,    *)
(* undefined, null, +0, -0, 0n, NaN and the empty string are falsy.        *)
Falsy == {"false", "undefined", "null", "0", "-0", "0n", "NaN", "''"}

ToBoolean(v) == v \notin Falsy

isVisibleStrict(todo) == todo.completed = "false"

(* The filter callback: todo => !todo.completed                            *)
isVisible(todo) == ~ToBoolean(todo.completed)

(* Array.prototype.filter: visit the elements in index order and push the  *)
(* ones the callback accepts onto a new array.                             *)
RECURSIVE filterFrom(_, _, _)
filterFrom(todos, i, acc) ==
    IF i > Len(todos) THEN acc
    ELSE filterFrom(todos, i + 1,
                    IF isVisible(todos[i]) THEN Append(acc, todos[i]) ELSE acc)

resultFunc(todos) == filterFrom(todos, 1, <<>>)

EmptyCache == [valid |-> FALSE, args |-> <<>>, result |-> <<>>]

(* createSelector([getTodos], resultFunc): run the input selector, return  *)
(* the memoized result when the input is the one of the previous call,     *)
(* recompute and remember otherwise.  On undefined, todos.filter throws a  *)
(* TypeError before anything is remembered.                                *)
getVisibleTodos(s, c) ==
    LET todos == getTodos(s) IN
    IF ~todos.defined
    THEN [threw |-> TRUE, result |-> <<>>, cache |-> c]
    ELSE IF c.valid /\ c.args = todos.value
    THEN [threw |-> FALSE, result |-> c.result, cache |-> c]
    ELSE LET r == resultFunc(todos.value) IN
         [threw |-> FALSE, result |-> r,
          cache |-> [valid |-> TRUE, args |-> todos.value, result |-> r]]

----------------------------------------------------------------------------
(* The file as the lexer sees it.                                          *)

NumLines == 163

LineComments == {1}

BlankLines == {2, 12, 31, 49, 69, 84, 98, 118, 136, 157}

BlockOpens == {3, 13, 32, 50, 70, 85, 99, 119, 137, 158}

BlockClosesEarly == {11, 30, 40, 48, 68, 83, 97, 117, 135, 156, 163}

BlockCloses == {11, 30, 48, 68, 83, 97, 117, 135, 156, 163}

----------------------------------------------------------------------------
(* Initial state.                                                          *)

(* createStore(rootReducer, applyMiddleware(thunk)): no preloaded state,   *)
(* so the first state is rootReducer's result for the initialising action. *)
InitStore ==
    /\ state \in rootReducer("undefined", [type |-> "@@redux/INIT"])
    /\ result = <<>>
    /\ selThrew = FALSE
    /\ cache = EmptyCache
    /\ nSelect = 0

InitCreator ==
    /\ actionsScope \in ActionsScopes
    /\ addCalls = <<>>
    /\ testResult = "not run"

InitLoad ==
    /\ pc = 1
    /\ inComment = FALSE
    /\ codeLines = {}
    /\ threw = FALSE

Init == InitStore /\ InitCreator /\ InitLoad

----------------------------------------------------------------------------
(* The action creator and its test.                                        *)

(* A caller invokes addTodo(text).                                         *)
AddTodo ==
    /\ Len(addCalls) < MaxCalls
    /\ \E text \in Texts :
         LET r == addTodo(text, actionsScope) IN
         addCalls' = Append(addCalls,
                            [arg |-> text, threw |-> r.threw, ret |-> r.value])
    /\ UNCHANGED <<actionsScope, testResult>>
    /\ UNCHANGED <<storeVars, loadVars>>

(* test('addTodo action creator'): build expectedAction, then              *)
(*   expect(addTodo('Learn Redux')).toEqual(expectedAction)                *)
RunTest ==
    /\ testResult' =
         IF expectedAction.threw THEN "fail"
         ELSE LET r == addTodo("Learn Redux", actionsScope) IN
              IF ~r.threw /\ r.value = expectedAction.value
              THEN "pass" ELSE "fail"
    /\ UNCHANGED <<actionsScope, addCalls>>
    /\ UNCHANGED <<storeVars, loadVars>>

NextCreator == AddTodo \/ RunTest

SpecCreator == Init /\ [][NextCreator]_vars

----------------------------------------------------------------------------
(* The store and the selector.                                             *)

(* props.addTodo(text) of the connected component: mapDispatchToProps =    *)
(* { addTodo } binds it to store.dispatch(addTodo(text)); the store        *)
(* replaces its state by rootReducer(state, action).  When addTodo throws, *)
(* dispatch is not reached and the state stays.                            *)
Dispatch ==
    /\ \E text \in Texts :
         LET a == addTodo(text, actionsScope) IN
         IF a.threw THEN state' = state
         ELSE state' \in rootReducer(state, a.value)
    /\ UNCHANGED <<result, selThrew, cache, nSelect>>
    /\ UNCHANGED <<actionsScope, creatorVars, loadVars>>

(* A caller invokes getVisibleTodos(state) on the store's state.           *)
Select ==
    /\ nSelect < MaxSelects
    /\ LET r == getVisibleTodos(state, cache) IN
         /\ selThrew' = r.threw
         /\ result' = IF r.threw THEN result ELSE r.result
         /\ cache' = r.cache
    /\ nSelect' = nSelect + 1
    /\ UNCHANGED state
    /\ UNCHANGED <<actionsScope, creatorVars, loadVars>>

Next == Dispatch \/ Select

Spec == Init /\ [][Next]_vars

----------------------------------------------------------------------------
(* Evaluation of the file: one step per line.  A line inside a block       *)
(* comment is skipped, and ends the comment when it holds the terminator;  *)
(* outside one, a line opening a block comment enters it, a line comment   *)
(* or a blank line is skipped, and any other line reaches the parser as    *)
(* code.  Every such line of this file begins with " *", which is no       *)
(* statement: the parser raises a SyntaxError.                             *)
LoadLine ==
    /\ pc <= NumLines
    /\ pc' = pc + 1
    /\ IF inComment
       THEN /\ inComment' = (pc \notin BlockCloses)
            /\ UNCHANGED <<codeLines, threw>>
       ELSE IF pc \in BlockOpens
       THEN /\ inComment' = TRUE
            /\ UNCHANGED <<codeLines, threw>>
       ELSE IF pc \in LineComments \cup BlankLines
       THEN UNCHANGED <<inComment, codeLines, threw>>
       ELSE /\ codeLines' = codeLines \cup {pc}
            /\ threw' = TRUE
            /\ UNCHANGED inComment
    /\ UNCHANGED <<actionsScope, storeVars, creatorVars>>


----------------------------------------------------------------------------
NextLoad == LoadLine

SpecLoad == Init /\ [][NextLoad]_vars

----------------------------------------------------------------------------
(* Properties.                                                             *)

(* C1: every call addTodo(text) returns an action with exactly the fields  *)
(* type and payload, whose type is 'ADD_TODO' and whose payload is text;   *)
(* so addTodo('Learn Redux') is {type: 'ADD_TODO', payload: 'Learn Redux'}.*)
C1_AddTodoReturnsAction ==
    \A i \in 1..Len(addCalls) :
        /\ ~addCalls[i].threw
        /\ DOMAIN addCalls[i].ret = {"type", "payload"}
        /\ addCalls[i].ret.type = "ADD_TODO"
        /\ addCalls[i].ret.payload = addCalls[i].arg

(* C2: evaluating the file hands no line to the parser as code and raises  *)
(* no error: at every point of the load, no line has been lexed as code    *)
(* and nothing was thrown, every line being blank or inside a comment.     *)
C2_LoadDoesNothing ==
    /\ codeLines = {}
    /\ threw = FALSE

C2_Witness ==
    /\ pc = NumLines + 1
    /\ inComment = FALSE

(* r is the elements of todos at the indices idx, in index order: the k-th *)
(* element of r is the element of todos at the k-th index of idx.          *)
IsSubseqAt(r, todos, idx) ==
    /\ Len(r) = Cardinality(idx)
    /\ \A j \in idx : r[Cardinality({k \in idx : k <= j})] = todos[j]

FalseIdx(todos) == {j \in 1..Len(todos) : todos[j].completed = "false"}

FalsyIdx(todos) ==
    {j \in 1..Len(todos) :
        todos[j].completed \in
            {"false", "undefined", "null", "0", "-0", "0n", "NaN", "''"}}

(* C4 as stated: a call getVisibleTodos(state), state.todos being an array *)
(* of todos, returns exactly the elements of state.todos whose completed   *)
(* flag is false, in their original relative order, and leaves state.todos *)
(* unchanged.                                                              *)
C4_Original ==
    [][(nSelect' # nSelect /\ "todos" \in DOMAIN state) =>
         /\ ~selThrew'
         /\ IsSubseqAt(result', state.todos, FalseIdx(state.todos))
         /\ state'.todos = state.todos]_vars

(* C4 amended: a call getVisibleTodos(state), state.todos being an array   *)
(* of todos, returns exactly the elements of state.todos whose completed   *)
(* value is falsy (false, missing or undefined, null, +0, -0, 0n, NaN,     *)
(* ''), in their original relative order, and leaves state.todos           *)
(* unchanged.                                                              *)
C4_SelectorReturnsFalsy ==
    [][(nSelect' # nSelect /\ "todos" \in DOMAIN state) =>
         /\ ~selThrew'
         /\ IsSubseqAt(result', state.todos, FalsyIdx(state.todos))
         /\ state'.todos = state.todos]_vars

C4_Witness ==
    /\ nSelect >= 2
    /\ ~selThrew
    /\ "todos" \in DOMAIN state
    /\ cache.valid /\ cache.args = state.todos
    /\ Len(state.todos) = 2
    /\ state.todos[1].completed = "undefined"
    /\ state.todos[2].completed = "false"
    /\ result = state.todos

====
